---- MODULE Spec2Model ----
(***************************************************************************)
(* Lesson-plan template filler (src/app.py): structure inference over the  *)
(* tables of a document (get_table_structure), chunked generation with     *)
(* retries and deterministic overrides (generate_deep_content_chunked),    *)
(* and the run driven by main().                                           *)
(*                                                                         *)
(* Texts.  A cell text is a sequence of symbols.  A symbol is either a     *)
(* whitespace character (" " or "\n") or a word that the code only ever    *)
(* treats as a unit.  The literals of the source are rendered in ASCII:    *)
(*   teacher_activity 教师活动   student_activity 学生活动                 *)
(*   design_intent 设计意图      teaching_step 教学环节                    *)
(*   teaching_content 教学内容   teaching_process 教学过程                 *)
(*   pre_class 课前  in_class 课中  post_class 课后  consolidation 巩固拓展*)
(*   learner_analysis 学情分析   teaching_goals 教学目标                   *)
(*   teaching_resources 教学资源 teaching_reflection 教学反思              *)
(*   ideology_case 思政案例  ensure_ideology 确保思政                      *)
(*   ratio_adjustable 比例可根据                                           *)
(*   class_time 授课时间  lesson_no 教案序号  class_place 授课地点         *)
(*   class_group 授课班级 class_content 授课内容  teacher_name 教师姓名    *)
(*   time 时间  place 地点  group 班级  outline 课程大纲  row 行           *)
(* Coordinates are 0-based as in the source.                               *)
(***************************************************************************)
EXTENDS Naturals, Integers, Sequences, FiniteSets, TLC

VARIABLES
    doc,            \* the document: a sequence of tables
    results,        \* Structures returned by successive get_table_structure calls
    carried,        \* get_table_structure: structure, processed_cell_ids and
                    \* processed_keys, of the call in progress or as the last
                    \* call left them
    pc,             \* position of main() in the run
    api_key,        \* main: st.text_input("DeepSeek API Key")
    user_inputs,    \* main: the UserContext map
    structure,      \* main: the Structure returned by inference
    batch_i,        \* generate_deep_content_chunked: loop index i
    retry_count,    \* generate_deep_content_chunked: retry_count of batch i
    final_mapping,  \* generate_deep_content_chunked: final_mapping / main: mapping
    written,        \* target_coords -> text written by the fill stage
    ui,             \* messages shown by st.error / st.warning / st.success
    trace,          \* observations of the run (calls made, batches seen)
    cell,           \* the cell handed to set_cell_text_preserving_style
    style_calls     \* <<cell before the call, text>> of the calls made on it

vars == <<doc, results, carried, pc, api_key, user_inputs, structure, batch_i,
          retry_count, final_mapping, written, ui, trace, cell, style_calls>>

(***************************************************************************)
(* Bounds of the model.                                                    *)
(***************************************************************************)
GenRows == 3
GenCols == 2
MaxLabels == 2
MaxTables == 2
MaxMatrixRows == 5
MaxCalls == 2
MaxRuns == 2
MaxParagraphs == 2
MaxStyleCalls == 2

(***************************************************************************)
(* Text helpers (str.strip, str.replace, len, substring test).             *)
(***************************************************************************)
Min(a, b) == IF a < b THEN a ELSE b

SetMax(S) == CHOOSE x \in S : \A y \in S : y <= x

Whitespace == {" ", "\n"}

\* number of characters of a symbol in the source's alphabet
SymLen(s) ==
    CASE s \in {"teacher_activity", "student_activity", "design_intent",
                "teaching_step", "teaching_content", "teaching_process",
                "learner_analysis", "teaching_goals", "teaching_resources",
                "teaching_reflection", "ideology_case", "ensure_ideology",
                "class_time", "lesson_no", "class_place", "class_group",
                "class_content", "teacher_name", "consolidation", "Name"} -> 4
      [] s \in {"pre_class", "in_class", "post_class"} -> 2
      [] s = "ratio_adjustable" -> 5
      [] s = "Course" -> 6
      [] s = "Teaching" -> 8
      [] s = "Objectives" -> 10
      [] s = "Existing" -> 8
      [] s = "Key" -> 3
      [] s = "Value" -> 5
      [] s = "Prose31" -> 31
      [] OTHER -> 1

RECURSIVE TextLen(_)
TextLen(t) == IF t = <<>> THEN 0 ELSE SymLen(Head(t)) + TextLen(Tail(t))

RECURSIVE LStrip(_)
LStrip(t) == IF t # <<>> /\ Head(t) \in Whitespace THEN LStrip(Tail(t)) ELSE t

RECURSIVE RStrip(_)
RStrip(t) ==
    IF t # <<>> /\ t[Len(t)] \in Whitespace
    THEN RStrip(SubSeq(t, 1, Len(t) - 1))
    ELSE t

\* str.strip()
Strip(t) == RStrip(LStrip(t))

NotWhitespace(s) == s \notin Whitespace

\* cell.text.strip().replace("\n", "").replace(" ", "")
Normalize(t) == SelectSeq(Strip(t), NotWhitespace)

\* k in text, for a word k
Contains(t, k) == \E n \in 1..Len(t) : t[n] = k

(***************************************************************************)
(* Grid model: python-docx table.cell(r, c), merged cells sharing one _tc. *)
(* A table is [rows, hmerge, vmerge]: rows holds the text of every grid    *)
(* position; <<r, c>> in hmerge is a grid position covered by the gridSpan *)
(* of the cell to its left, <<r, c>> in vmerge a vMerge continuation of    *)
(* the cell above.                                                         *)
(***************************************************************************)
NRows(table) == Len(table.rows)
NCols(table) == Len(table.rows[1])

RECURSIVE TcOf(_, _, _)
TcOf(table, r, c) ==
    IF <<r, c>> \in table.vmerge /\ r > 0 THEN TcOf(table, r - 1, c)
    ELSE IF <<r, c>> \in table.hmerge /\ c > 0 THEN TcOf(table, r, c - 1)
    ELSE <<r, c>>

\* identity of the underlying cell element (cell._tc) within the document
CellId(table, t_idx, r, c) == <<t_idx>> \o TcOf(table, r, c)

\* table.cell(r, c).text
CellText(table, r, c) ==
    LET rc == TcOf(table, r, c) IN table.rows[rc[1] + 1][rc[2] + 1]

IsBlank(text) == Strip(text) = <<>>

(***************************************************************************)
(* set_cell_text_preserving_style.  A cell is the sequence of its          *)
(* paragraphs, a paragraph the sequence of its runs, a run a record of its *)
(* text and of the four attributes the function reads; NoValue is an       *)
(* attribute that is not set (None in the source), a font size is <<>>     *)
(* when not set and <<n>> when set to n points.                            *)
(***************************************************************************)
NoValue == "None"

\* the run paragraph.add_run(text) creates
NewRun(text) ==
    [text |-> text, bold |-> NoValue, italic |-> NoValue, name |-> NoValue,
     size |-> <<>>]

\* cell.add_paragraph(text): the run is added only for a non-empty text
AddParagraph(text) == IF text # <<>> THEN <<NewRun(text)>> ELSE <<>>

\* if style_run.font.size: a Length is true unless it is 0
SizeIsTruthy(size) == size # <<>> /\ size[1] # 0

\* the captured style is not reapplied
CopyStyle_none(run, style_run) == run

\* run.bold = ...; run.italic = ...; run.font.name = ...; if size: run.font.size = ...
CopyStyle(run, style_run) ==
    [run EXCEPT !.bold = style_run.bold, !.italic = style_run.italic,
                !.name = style_run.name,
                !.size = IF SizeIsTruthy(style_run.size) THEN style_run.size
                         ELSE @]

\* the cell after set_cell_text_preserving_style(cell, text)
set_cell_text_preserving_style(c, text) ==
    IF c = <<>> THEN <<AddParagraph(text)>>
    ELSE LET paragraph == c[1]
             run == NewRun(text)
         IN  [c EXCEPT ![1] =
                 IF paragraph # <<>> THEN <<CopyStyle(run, paragraph[1])>>
                 ELSE <<run>>]

RECURSIVE SplitParagraphs(_, _)
\* the lines of a text, cut at every "\n"
SplitParagraphs(text, line) ==
    IF text = <<>> THEN <<line>>
    ELSE IF Head(text) = "\n"
    THEN <<line>> \o SplitParagraphs(Tail(text), <<>>)
    ELSE SplitParagraphs(Tail(text), Append(line, Head(text)))

RECURSIVE ParagraphText(_)
\* paragraph.text: the texts of the runs, concatenated
ParagraphText(paragraph) ==
    IF paragraph = <<>> THEN <<>>
    ELSE paragraph[1].text \o ParagraphText(Tail(paragraph))

RECURSIVE TextOfCell(_)
\* cell.text: "\n".join(p.text for p in cell.paragraphs)
TextOfCell(c) ==
    IF c = <<>> THEN <<>>
    ELSE IF Len(c) = 1 THEN ParagraphText(c[1])
    ELSE ParagraphText(c[1]) \o <<"\n">> \o TextOfCell(Tail(c))

(***************************************************************************)
(* get_table_structure.                                                    *)
(***************************************************************************)
ProcessHeaders == {"teacher_activity", "student_activity", "design_intent"}
ColumnHeaders == {"teaching_step", "teaching_content", "teacher_activity",
                  "student_activity", "design_intent"}
PhaseTokens == {"pre_class", "in_class", "post_class", "consolidation"}
SectionHeaders == {"learner_analysis", "teaching_goals", "teaching_resources",
                   "teaching_reflection"}
Boilerplate == {"ideology_case", "ensure_ideology", "ratio_adjustable"}
DefaultPhase == <<"teaching_process">>
HeaderScanRows == 5
InstructionalLen == 30
ShortLabelLen == 10
Sep == <<" ", ">", " ">>

is_instructional(text) ==
    TextLen(text) > InstructionalLen \/ \E k \in Boilerplate : Contains(text, k)

EmptyLocals ==
    [structure |-> <<>>, processed_cell_ids |-> {}, processed_keys |-> {}]

\* the locals are a list and two sets; always true of the values passed
\* below, where it makes TLC evaluate the locals of one step before the next
IsLocals(st) ==
    /\ Len(st.structure) >= 0
    /\ st.processed_cell_ids \subseteq st.processed_cell_ids
    /\ st.processed_keys \subseteq st.processed_keys

\* the locals a call starts with: module-level state would survive the call
CarriedLocals == [carried EXCEPT !.structure = <<>>]

\* structure = [], processed_cell_ids = set(), processed_keys = set()
FreshLocals == EmptyLocals

RECURSIVE RowTextFrom(_, _, _)
RowTextFrom(table, r, c) ==
    IF c >= NCols(table) THEN <<>>
    ELSE CellText(table, r, c) \o RowTextFrom(table, r, c + 1)

RECURSIVE AllTextFrom(_, _)
AllTextFrom(table, r) ==
    IF r >= NRows(table) THEN <<>>
    ELSE RowTextFrom(table, r, 0) \o AllTextFrom(table, r + 1)

\* "".join([c.text for r in rows for c in r.cells])
AllText(table) == AllTextFrom(table, 0)

IsMatrixTable(table) == \E k \in ProcessHeaders : Contains(AllText(table), k)

\* col_map[c_idx] = txt on a dict kept in insertion order, as <<c_idx, txt>> pairs
DictSet(d, key, val) ==
    IF \E n \in 1..Len(d) : d[n][1] = key
    THEN [n \in 1..Len(d) |-> IF d[n][1] = key THEN <<key, val>> ELSE d[n]]
    ELSE Append(d, <<key, val>>)

RECURSIVE BuildColMap(_, _, _)
BuildColMap(table, k, col_map) ==
    IF k >= Min(HeaderScanRows, NRows(table)) * NCols(table) THEN col_map
    ELSE LET r == k \div NCols(table)
             c == k % NCols(table)
             txt == Strip(CellText(table, r, c))
         IN  BuildColMap(table, k + 1,
                 IF Len(txt) = 1 /\ txt[1] \in ColumnHeaders
                 THEN DictSet(col_map, c, txt)
                 ELSE col_map)

ColMap(table) == BuildColMap(table, 0, <<>>)

RECURSIVE DistinctTexts(_, _, _, _)
DistinctTexts(table, r, c, seen) ==
    IF c >= NCols(table) THEN seen
    ELSE LET txt == Strip(CellText(table, r, c)) IN
         DistinctTexts(table, r, c + 1,
             IF \E n \in 1..Len(seen) : seen[n] = txt THEN seen
             ELSE Append(seen, txt))

RECURSIVE Join(_)
Join(texts) == IF texts = <<>> THEN <<>> ELSE Head(texts) \o Join(Tail(texts))

\* "".join(list(dict.fromkeys([c.text.strip() for c in rows[r].cells])))
RowRawText(table, r) == Join(DistinctTexts(table, r, 0, <<>>))

IsPhaseRow(table, r) ==
    LET raw == RowRawText(table, r) IN Len(raw) = 1 /\ raw[1] \in PhaseTokens

\* a repeated marker restarts at the default phase
NextPhase_reset(current_phase, row_raw_text) ==
    IF row_raw_text = current_phase THEN DefaultPhase ELSE row_raw_text

NextPhase(current_phase, row_raw_text) ==
    IF row_raw_text = current_phase THEN current_phase ELSE row_raw_text

\* the claimed-cell test forgotten
IsUnclaimed_always(t_id, processed_cell_ids) == TRUE

IsUnclaimed(t_id, processed_cell_ids) == t_id \notin processed_cell_ids

MatrixKey(current_phase, col_name, r) ==
    current_phase \o Sep \o col_name \o <<"_", "row", ToString(r)>>

RECURSIVE ScanMatrixCols(_, _, _, _, _, _, _)
ScanMatrixCols(table, t_idx, r, current_phase, col_map, n, st) ==
    IF n > Len(col_map) \/ ~IsLocals(st) THEN st
    ELSE LET c_idx == col_map[n][1]
             col_name == col_map[n][2]
             txt == CellText(table, r, c_idx)
             t_id == CellId(table, t_idx, r, c_idx)
             hit == /\ IsBlank(txt) /\ Strip(txt) # col_name
                    /\ IsUnclaimed(t_id, st.processed_cell_ids)
             item == [key_text |-> MatrixKey(current_phase, col_name, r),
                      original_text |-> col_name,
                      target_coords |-> <<t_idx, r, c_idx>>,
                      is_teaching_process |-> TRUE]
         IN  ScanMatrixCols(table, t_idx, r, current_phase, col_map, n + 1,
                 IF hit
                 THEN [st EXCEPT !.structure = Append(@, item),
                                 !.processed_cell_ids = @ \cup {t_id}]
                 ELSE st)

RECURSIVE ScanMatrixRows(_, _, _, _, _)
ScanMatrixRows(table, t_idx, r, current_phase, st) ==
    IF r >= NRows(table) \/ ~IsLocals(st) THEN st
    ELSE IF IsPhaseRow(table, r)
    THEN ScanMatrixRows(table, t_idx, r + 1,
             NextPhase(current_phase, RowRawText(table, r)), st)
    ELSE ScanMatrixRows(table, t_idx, r + 1, current_phase,
             ScanMatrixCols(table, t_idx, r, current_phase, ColMap(table), 1, st))

\* no label is ever dropped as a repetition
IsRepeatedShortLabel_never(text, processed_keys) == FALSE

\* a short label is dropped when its text was bound before
IsRepeatedShortLabel(text, processed_keys) ==
    text \in processed_keys /\ TextLen(text) < ShortLabelLen

\* the blank test on the neighbours forgotten
ChooseTarget_any(table, t_idx, r, c) ==
    IF c + 1 < NCols(table)
    THEN <<[tr |-> r, tc |-> c + 1, t_id |-> CellId(table, t_idx, r, c + 1)]>>
    ELSE <<>>

\* right neighbour if blank, else the neighbour below if blank; <<>> is None
ChooseTarget(table, t_idx, r, c) ==
    LET right == IF c + 1 < NCols(table) /\ IsBlank(CellText(table, r, c + 1))
                 THEN <<[tr |-> r, tc |-> c + 1,
                         t_id |-> CellId(table, t_idx, r, c + 1)]>>
                 ELSE <<>>
    IN  IF right = <<>> /\ r + 1 < NRows(table)
           /\ IsBlank(CellText(table, r + 1, c))
        THEN <<[tr |-> r + 1, tc |-> c,
                t_id |-> CellId(table, t_idx, r + 1, c)]>>
        ELSE right

GenericKey(table, r, text) ==
    LET p_header == Strip(CellText(table, r, 0)) IN
    IF Len(p_header) = 1 /\ p_header[1] \in SectionHeaders /\ p_header # text
    THEN p_header \o Sep \o text
    ELSE text

RECURSIVE ScanGenericCells(_, _, _, _)
ScanGenericCells(table, t_idx, k, st) ==
    IF k >= NRows(table) * NCols(table) \/ ~IsLocals(st) THEN st
    ELSE LET r == k \div NCols(table)
             c == k % NCols(table)
             text == Normalize(CellText(table, r, c))
             target == ChooseTarget(table, t_idx, r, c)
             skip == \/ text = <<>>
                     \/ is_instructional(text)
                     \/ IsRepeatedShortLabel(text, st.processed_keys)
             hit == /\ ~skip
                    /\ target # <<>>
                    /\ IsUnclaimed(target[1].t_id, st.processed_cell_ids)
             item == [key_text |-> GenericKey(table, r, text),
                      original_text |-> text,
                      target_coords |-> <<t_idx, target[1].tr, target[1].tc>>,
                      is_teaching_process |-> FALSE]
         IN  ScanGenericCells(table, t_idx, k + 1,
                 IF hit
                 THEN [structure |-> Append(st.structure, item),
                       processed_cell_ids |->
                           st.processed_cell_ids \cup {target[1].t_id},
                       processed_keys |-> st.processed_keys \cup {text}]
                 ELSE st)

\* one iteration of "for t_idx, table in enumerate(doc.tables)"
ScanTable(table, t_idx, st) ==
    IF IsMatrixTable(table)
    THEN ScanMatrixRows(table, t_idx, 0, DefaultPhase, st)
    ELSE ScanGenericCells(table, t_idx, 0, st)

RECURSIVE ScanTables(_, _, _)
ScanTables(d, t_idx, st) ==
    IF t_idx >= Len(d) \/ ~IsLocals(st) THEN st
    ELSE ScanTables(d, t_idx + 1, ScanTable(d[t_idx + 1], t_idx, st))

\* the locals of get_table_structure(doc) when it returns
RunInference(d, locals) == ScanTables(d, 0, locals)

(***************************************************************************)
(* generate_deep_content_chunked.                                          *)
(***************************************************************************)
BATCH_SIZE == 45
MAX_ATTEMPTS == 2
None == "None"

\* dict.get(key)
Get(m, key) == IF key \in DOMAIN m THEN m[key] ELSE None

\* truth value of a str-or-None
Truthy(v) == v # None /\ v # ""

\* math.ceil(len(all_keys) / BATCH_SIZE)
TotalBatches(s) == (Len(s) + BATCH_SIZE - 1) \div BATCH_SIZE

\* all_keys = [item['key_text'] for item in doc_keys]
AllKeys(s) == [n \in 1..Len(s) |-> s[n].key_text]

\* all_keys[i * BATCH_SIZE : i * BATCH_SIZE + BATCH_SIZE]
BatchKeys(s, i) ==
    SubSeq(AllKeys(s), i * BATCH_SIZE + 1, Min(Len(s), i * BATCH_SIZE + BATCH_SIZE))

\* the batch result replaces the mapping instead of being merged into it
MergeBatch_replace(mapping, batch_result) == batch_result

\* final_mapping.update(batch_result)
MergeBatch(mapping, batch_result) ==
    [k \in DOMAIN mapping \cup DOMAIN batch_result |->
        IF k \in DOMAIN batch_result THEN batch_result[k] ELSE mapping[k]]

\* manual_overrides, as <<key, value>> pairs in the order of the dict literal
ManualOverrides(u) ==
    << <<<<"class_time">>, Get(u, "time")>>,
       <<<<"lesson_no">> \o Sep \o <<"class_time">>, Get(u, "time")>>,
       <<<<"class_place">>, Get(u, "place")>>,
       <<<<"lesson_no">> \o Sep \o <<"class_place">>, Get(u, "place")>>,
       <<<<"class_group">>, Get(u, "group")>>,
       <<<<"class_content">> \o Sep \o <<"class_group">>, Get(u, "group")>>,
       <<<<"teacher_name">>, Get(u, "teacher_name")>> >>

\* the overrides are never applied
ApplyOverrides_skip(mapping, u) == mapping

\* for k, v in manual_overrides.items(): if v: final_mapping[k] = v
ApplyOverrides(mapping, u) ==
    LET ov == ManualOverrides(u)
        set == {n \in 1..Len(ov) : Truthy(ov[n][2])}
    IN  [k \in DOMAIN mapping \cup {ov[n][1] : n \in set} |->
            IF \E n \in set : ov[n][1] = k
            THEN ov[CHOOSE n \in set : ov[n][1] = k][2]
            ELSE mapping[k]]

(***************************************************************************)
(* The backend.  A response is what chain.invoke does for one attempt:     *)
(* it raises, or returns text.  extract_json_safe turns the text into the  *)
(* value json.loads gives for it (a dict, a list, a number, ...), or None  *)
(* when it does not parse after the repairs.                               *)
(***************************************************************************)
ResponseKinds == {"raises", "not_json", "empty_object", "empty_list",
                  "pair_list", "broken_pair_list", "json_number", "full",
                  "fenced_trailing_comma", "partial", "forged_identity",
                  "blank_values", "labels_only"}

\* the responses drawn for a Structure: every kind for a Structure of one
\* batch; for a longer one a failure of each sort (the call raises, a falsy
\* value, an update that raises half way) and a full or partial object
ResponseKindsFor(s) ==
    IF Len(s) <= BATCH_SIZE THEN ResponseKinds
    ELSE {"raises", "empty_object", "broken_pair_list", "full", "partial"}

IdentityKeys(u) == {ManualOverrides(u)[n][1] : n \in 1..Len(ManualOverrides(u))}

\* the JSON object a response of this kind carries for the batch keys
ResponseObject(kind, keys, s, u) ==
    LET K == {keys[n] : n \in 1..Len(keys)}
        L == {s[n].original_text : n \in {x \in 1..Len(s) : s[x].key_text \in K}}
    IN  CASE kind \in {"full", "fenced_trailing_comma"} -> [k \in K |-> "generated"]
          [] kind = "partial" -> [k \in {keys[1]} |-> "generated"]
          [] kind = "forged_identity" ->
                [k \in K \cup IdentityKeys(u) |->
                    IF k \in IdentityKeys(u) THEN "forged" ELSE "generated"]
          [] kind = "blank_values" ->
                [k \in K \cup L |-> IF k \in K THEN "" ELSE "for_label"]
          [] kind = "labels_only" -> [k \in L |-> "for_label"]
          [] OTHER -> [k \in {} |-> ""]

\* an element of a JSON list as dict.update sees it: a two-element
\* sequence with a hashable first element (a key/value pair), or not
PairItem(k, v) == [pair |-> TRUE, k |-> k, v |-> v]
NoPairItem == [pair |-> FALSE, k |-> <<>>, v |-> ""]

\* the JSON list a response of this kind carries for the batch keys:
\* [[key, "generated"], ...] for every key, or [[key1, "generated"], 1]
ResponseList(kind, keys) ==
    CASE kind = "pair_list" ->
            [n \in 1..Len(keys) |-> PairItem(keys[n], "generated")]
      [] kind = "broken_pair_list" ->
            <<PairItem(keys[1], "generated"), NoPairItem>>
      [] OTHER -> <<>>

\* extract_json_safe(response.content), by the type of the value returned:
\* "none" for None, "object" for a dict (value), "list" for a list (items),
\* "number" for an int (number)
extract_json_safe(kind, keys, s, u) ==
    LET nothing == [is |-> "none", value |-> [k \in {} |-> ""],
                    items |-> <<>>, number |-> 0]
    IN  CASE kind = "not_json" -> nothing
          [] kind \in {"empty_list", "pair_list", "broken_pair_list"} ->
                [nothing EXCEPT !.is = "list", !.items = ResponseList(kind, keys)]
          [] kind = "json_number" ->
                [nothing EXCEPT !.is = "number", !.number = 7]
          [] OTHER ->
                [nothing EXCEPT !.is = "object",
                                !.value = ResponseObject(kind, keys, s, u)]

\* if batch_result: the truth value of what extract_json_safe returned
ResultIsTruthy(batch_result) ==
    CASE batch_result.is = "object" -> DOMAIN batch_result.value # {}
      [] batch_result.is = "list" -> batch_result.items # <<>>
      [] batch_result.is = "number" -> batch_result.number # 0
      [] OTHER -> FALSE

\* how many leading elements of the list dict.update inserts before it
\* meets an element that is no key/value pair
PairPrefix(items) ==
    IF \A n \in 1..Len(items) : items[n].pair THEN Len(items)
    ELSE SetMax({m \in 0..Len(items) : \A n \in 1..m : items[n].pair})

\* the dict made of the first n pairs, a later pair replacing an earlier one
DictOfPairs(items, n) ==
    [k \in {items[m].k : m \in 1..n} |->
        items[SetMax({m \in 1..n : items[m].k = k})].v]

\* final_mapping.update(batch_result) raises: a list with an element that
\* is no pair (ValueError/TypeError), a number (TypeError: not iterable)
UpdateRaises(batch_result) ==
    CASE batch_result.is = "list" ->
            PairPrefix(batch_result.items) < Len(batch_result.items)
      [] batch_result.is = "number" -> TRUE
      [] OTHER -> FALSE

\* what final_mapping.update(batch_result) has inserted when it returns or
\* raises: the dict, or the pairs before the first element that is no pair
UpdateEntries(batch_result) ==
    CASE batch_result.is = "object" -> batch_result.value
      [] batch_result.is = "list" ->
            DictOfPairs(batch_result.items, PairPrefix(batch_result.items))
      [] OTHER -> [k \in {} |-> ""]

\* one pass of the while loop ends with success = True: the call returned,
\* batch_result is truthy and final_mapping.update did not raise
AttemptSucceeds(kind, keys, s, u) ==
    /\ kind # "raises"
    /\ ResultIsTruthy(extract_json_safe(kind, keys, s, u))
    /\ ~UpdateRaises(extract_json_safe(kind, keys, s, u))

(***************************************************************************)
(* Documents the inference is run on.                                      *)
(***************************************************************************)
Blank == <<>>
LabelTexts == {<<" ">>, <<"Name">>, <<"Course", " ", "Name">>, <<"Prose31">>,
               <<"learner_analysis">>}

Table(rows) == [rows |-> rows, hmerge |-> {}, vmerge |-> {}]

\* subsets of S with at most k elements
RECURSIVE SubsetsUpTo(_, _)
SubsetsUpTo(S, k) ==
    IF k = 0 THEN {{}}
    ELSE LET smaller == SubsetsUpTo(S, k - 1)
         IN  smaller \cup {T \cup {x} : T \in smaller, x \in S}

GenericGrid == (1..GenRows) \X (1..GenCols)

GenericTable(f) ==
    Table([r \in 1..GenRows |-> [c \in 1..GenCols |->
              IF <<r, c>> \in DOMAIN f THEN f[<<r, c>>] ELSE Blank]])

\* the merges of one pair of cells whose covered position is empty
MergeChoices(g) ==
    {[g EXCEPT !.hmerge = {rc}] :
        rc \in {x \in (0..GenRows - 1) \X (1..GenCols - 1) :
                    g.rows[x[1] + 1][x[2] + 1] = Blank}}
    \cup {[g EXCEPT !.vmerge = {rc}] :
        rc \in {x \in (1..GenRows - 1) \X (0..GenCols - 1) :
                    g.rows[x[1] + 1][x[2] + 1] = Blank}}

\* rows of a two-column process table
MatrixRowKinds == {"header", "in_class", "post_class_left", "data",
                   "merged_data"}

MatrixRowTexts(kind) ==
    CASE kind = "header" -> <<<<"teaching_step">>, <<"teacher_activity">>>>
      [] kind = "dup_header" -> <<<<"teacher_activity">>, <<"teacher_activity">>>>
      [] kind = "in_class" -> <<<<"in_class">>, <<"in_class">>>>
      [] kind = "post_class_left" -> <<<<"post_class">>, Blank>>
      [] OTHER -> <<Blank, Blank>>

MatrixTable(kinds) ==
    [rows |-> [r \in 1..Len(kinds) |-> MatrixRowTexts(kinds[r])],
     hmerge |-> {<<r - 1, 1>> : r \in {x \in 1..Len(kinds) : kinds[x] = "merged_data"}},
     vmerge |-> {}]

\* a process table whose cell (1, 0) spans two columns and two rows
MergedProcessTable ==
    [rows |-> <<<<<<"teaching_content">>, <<"teacher_activity">>>>,
                <<Blank, Blank>>, <<Blank, Blank>>>>,
     hmerge |-> {<<1, 1>>}, vmerge |-> {<<2, 0>>}]

\* small tables combined into documents of several tables
SmallTables ==
    { Table(<<<<<<"Name">>, Blank>>>>),
      Table(<<<<<<"Name">>, <<"Prose31">>>>>>),
      Table(<<<<<<"Course", " ", "Name">>, Blank>>>>),
      Table(<<<<<<"learner_analysis">>, <<"Name">>>>, <<Blank, Blank>>>>),
      Table(<<<<<<"teaching_content">>, Blank>>>>),
      MatrixTable(<<"dup_header", "data">>),
      MatrixTable(<<"header", "in_class", "data">>),
      MergedProcessTable }

MultiTableDocs ==
    UNION {[1..n -> SmallTables] : n \in 1..MaxTables}

\* create_test_doc() of test_parsing.py
TestDoc ==
    << Table(<<<<<<"Course", " ", "Name">>, Blank>>, <<Blank, Blank>>>>),
       Table(<<<<<<"Teaching", " ", "Objectives">>>>, <<Blank>>>>),
       Table(<<<<<<"Existing", " ", "Key">>, <<"Existing", " ", "Value">>>>>>) >>

(***************************************************************************)
(* SpecInfer: get_table_structure called directly on a document, as        *)
(* test_parsing.py does, up to MaxCalls times on the same document.        *)
(***************************************************************************)
NoInputs == [x \in {} |-> ""]
NoMapping == [x \in {} |-> ""]
NoTrace ==
    [calls |-> <<>>, inferences |-> 0, returned |-> {}, succeeded |-> {},
     failed |-> {}, fill_ran |-> FALSE, parsed_doc |-> <<>>]

InitInfer ==
    /\ \/ \E S \in SubsetsUpTo(GenericGrid, MaxLabels) :
             \E f \in [S -> LabelTexts] : doc = <<GenericTable(f)>>
       \/ \E S \in SubsetsUpTo(GenericGrid, 1) :
             \E f \in [S -> LabelTexts] :
                \E g \in MergeChoices(GenericTable(f)) : doc = <<g>>
       \/ \E n \in 1..MaxMatrixRows :
             \E kinds \in [1..n -> MatrixRowKinds] : doc = <<MatrixTable(kinds)>>
       \/ doc \in MultiTableDocs
       \/ doc = TestDoc
    /\ results = <<>>
    /\ carried = EmptyLocals
    /\ pc = "test"
    /\ api_key = ""
    /\ user_inputs = NoInputs
    /\ structure = <<>>
    /\ batch_i = 0
    /\ retry_count = 0
    /\ final_mapping = NoMapping
    /\ written = <<>>
    /\ ui = <<>>
    /\ trace = NoTrace
    /\ cell = <<>>
    /\ style_calls = <<>>

\* get_table_structure(doc) is entered: structure = [],
\* processed_cell_ids = set(), processed_keys = set()
CallGetTableStructure ==
    /\ pc = "test"
    /\ Len(results) < MaxCalls
    /\ carried' = FreshLocals
    /\ pc' = "scan"
    /\ UNCHANGED <<doc, results, api_key, user_inputs, structure, batch_i,
                   retry_count, final_mapping, written, ui, trace, cell,
                   style_calls>>

\* for t_idx, table in enumerate(doc.tables): ...; return structure.  The
\* loop works on the locals as they are when it starts.
ScanAndReturn ==
    /\ pc = "scan"
    /\ LET out == RunInference(doc, carried)
       IN  /\ results' = Append(results, out.structure)
           /\ carried' = out
    /\ pc' = "test"
    /\ UNCHANGED <<doc, api_key, user_inputs, structure, batch_i,
                   retry_count, final_mapping, written, ui, trace, cell,
                   style_calls>>

NextInfer == CallGetTableStructure \/ ScanAndReturn

SpecInfer == InitInfer /\ [][NextInfer]_vars

(***************************************************************************)
(* SpecStyle: set_cell_text_preserving_style applied to one cell, up to    *)
(* MaxStyleCalls times.                                                    *)
(***************************************************************************)
\* sequences over S of length at most k
SeqsUpTo(S, k) == UNION {[1..n -> S] : n \in 0..k}

\* first runs: every combination of the attributes the function copies;
\* a size is not set, set to 0 (w:sz of 0, a Length that is false) or 12
StyleRuns ==
    [text : {<<"old">>}, bold : {NoValue, "True", "False"},
     italic : {NoValue, "True"}, name : {NoValue, "SimSun"},
     size : {<<>>, <<0>>, <<12>>}]

\* runs after the first one
LaterRuns ==
    {[text |-> <<"more">>, bold |-> NoValue, italic |-> "True",
      name |-> NoValue, size |-> <<9>>],
     NewRun(<<"tail">>)}

\* paragraphs after the first one
OtherParagraphs == {<<>>, <<NewRun(<<"note">>)>>}

FirstParagraphs ==
    {<<>>} \cup {<<r>> \o rest : r \in StyleRuns,
                                 rest \in SeqsUpTo(LaterRuns, MaxRuns - 1)}

StyleCells ==
    {<<>>} \cup {<<p>> \o rest : p \in FirstParagraphs,
                                 rest \in SeqsUpTo(OtherParagraphs, MaxParagraphs - 1)}

\* the texts written: none, or a generated content
StyleTexts == {<<>>, <<"generated">>}

InitStyle ==
    /\ cell \in StyleCells
    /\ style_calls = <<>>
    /\ doc = <<>>
    /\ results = <<>>
    /\ carried = EmptyLocals
    /\ pc = "style"
    /\ api_key = ""
    /\ user_inputs = NoInputs
    /\ structure = <<>>
    /\ batch_i = 0
    /\ retry_count = 0
    /\ final_mapping = NoMapping
    /\ written = <<>>
    /\ ui = <<>>
    /\ trace = NoTrace

CallSetCellText(text) ==
    /\ pc = "style"
    /\ Len(style_calls) < MaxStyleCalls
    /\ cell' = set_cell_text_preserving_style(cell, text)
    /\ style_calls' = Append(style_calls, [before |-> cell, text |-> text])
    /\ UNCHANGED <<doc, results, carried, pc, api_key, user_inputs, structure,
                   batch_i, retry_count, final_mapping, written, ui, trace>>

NextStyle == \E text \in StyleTexts : CallSetCellText(text)

SpecStyle == InitStyle /\ [][NextStyle]_vars

(***************************************************************************)
(* Spec: one run of main() after the button is pressed.                    *)
(***************************************************************************)
BigRows == 19
TwinRows == 9

\* a process table with five mapped columns and BigRows empty rows
BigMatrixTable ==
    Table([r \in 1..BigRows + 1 |->
              IF r = 1
              THEN <<<<"teaching_step">>, <<"teaching_content">>,
                     <<"teacher_activity">>, <<"student_activity">>,
                     <<"design_intent">>>>
              ELSE [c \in 1..5 |-> Blank]])

\* identity labels: one bound to the right (a blank cell of two empty
\* paragraphs), one under a section header
IdentityTable ==
    Table(<< <<<<"teacher_name">>, <<"\n">>>>,
             <<<<"learner_analysis">>, <<"class_time">>>>,
             <<Blank, Blank>> >>)

\* a process table with five mapped columns and TwinRows empty rows
TwinTable ==
    Table([r \in 1..TwinRows + 1 |->
              IF r = 1
              THEN <<<<"teaching_step">>, <<"teaching_content">>,
                     <<"teacher_activity">>, <<"student_activity">>,
                     <<"design_intent">>>>
              ELSE [c \in 1..5 |-> Blank]])

RunDocs ==
    { <<Table(<<<<<<"Existing", " ", "Key">>, <<"Existing", " ", "Value">>>>>>)>>,
      <<IdentityTable>>,
      <<MergedProcessTable>>,
      <<IdentityTable, BigMatrixTable>>,
      <<TwinTable, TwinTable>> }

UserContext(teacher, time, place, group, outline) ==
    [k \in {"lesson_no", "time", "teacher_name", "group", "place", "outline"} |->
        CASE k = "lesson_no" -> "No. 01"
          [] k = "time" -> time
          [] k = "teacher_name" -> teacher
          [] k = "group" -> group
          [] k = "place" -> place
          [] OTHER -> outline]

\* the identity fields other than the teacher are all given or all left empty
RunContexts ==
    {UserContext(x[1], x[2], IF x[2] = "" THEN "" ELSE "A305",
                 IF x[2] = "" THEN "" ELSE "Class 1", x[3]) :
        x \in {"", "ZhangSan"} \X {"", "2024-03-20"} \X {"", "Python loops"}}

\* the uploaded template and the sidebar inputs of a run: the small
\* documents with every context, the long one with all fields supplied
RunCases ==
    {x \in RunDocs \X RunContexts :
        Len(x[1]) = 1 \/ \A k \in DOMAIN x[2] : x[2][k] # ""}

Init ==
    /\ \E x \in RunCases : doc = x[1] /\ user_inputs = x[2]
    /\ results = <<>>
    /\ carried = EmptyLocals
    /\ pc = "idle"
    /\ api_key \in {"", "sk-key"}
    /\ structure = <<>>
    /\ batch_i = 0
    /\ retry_count = 0
    /\ final_mapping = NoMapping
    /\ written = <<>>
    /\ ui = <<>>
    /\ trace = NoTrace
    /\ cell = <<>>
    /\ style_calls = <<>>

\* the credential test dropped
HasCredential_any(key) == TRUE

\* if not api_key
HasCredential(key) == key # ""

\* if not topic_outline
HasTopic(u) == u["outline"] # ""

\* st.error("...API Key"); return
RejectMissingKey ==
    /\ pc = "idle"
    /\ ~HasCredential(api_key)
    /\ ui' = Append(ui, "error_api_key")
    /\ pc' = "stopped"
    /\ UNCHANGED <<doc, results, carried, api_key, user_inputs, structure,
                   batch_i, retry_count, final_mapping, written, trace, cell,
                   style_calls>>

\* st.warning("...topic"); return
RejectMissingTopic ==
    /\ pc = "idle"
    /\ HasCredential(api_key)
    /\ ~HasTopic(user_inputs)
    /\ ui' = Append(ui, "warning_topic")
    /\ pc' = "stopped"
    /\ UNCHANGED <<doc, results, carried, api_key, user_inputs, structure,
                   batch_i, retry_count, final_mapping, written, trace, cell,
                   style_calls>>

\* Step 1: structure = get_table_structure(doc); warn and return when empty;
\* otherwise enter generate_deep_content_chunked
ParseDocument ==
    /\ pc = "idle"
    /\ HasCredential(api_key)
    /\ HasTopic(user_inputs)
    /\ LET out == RunInference(doc, FreshLocals)
       IN  /\ structure' = out.structure
           /\ carried' = out
           /\ results' = Append(results, out.structure)
           /\ IF out.structure = <<>>
              THEN ui' = Append(ui, "warning_structure") /\ pc' = "stopped"
              ELSE ui' = ui /\ pc' = "generate"
    /\ trace' = [trace EXCEPT !.inferences = @ + 1, !.parsed_doc = doc]
    /\ batch_i' = 0
    /\ retry_count' = 0
    /\ final_mapping' = NoMapping
    /\ UNCHANGED <<doc, api_key, user_inputs, written, cell, style_calls>>

\* the loop is left without any retry
LoopContinues_never(count, success) == FALSE

\* while retry_count < 2 and not success
LoopContinues(count, success) == count < MAX_ATTEMPTS /\ ~success

\* extract_json_safe returned a value (not None) for the response
Parsed(kind, keys, s, u) ==
    kind # "raises" /\ extract_json_safe(kind, keys, s, u).is # "none"

\* one pass of "while retry_count < 2 and not success" for batch batch_i,
\* with the end of the batch when the loop is left
Attempt(kind) ==
    /\ pc = "generate"
    /\ batch_i < TotalBatches(structure)
    /\ retry_count < MAX_ATTEMPTS
    /\ LET keys == BatchKeys(structure, batch_i)
           batch_result == extract_json_safe(kind, keys, structure, user_inputs)
           updates == kind # "raises" /\ ResultIsTruthy(batch_result)
           ok == AttemptSucceeds(kind, keys, structure, user_inputs)
           count == IF ok THEN retry_count ELSE retry_count + 1
           leaves == ~LoopContinues(count, ok)
       IN  /\ final_mapping' =
                  IF updates
                  THEN MergeBatch(final_mapping, UpdateEntries(batch_result))
                  ELSE final_mapping
           /\ retry_count' = IF leaves THEN 0 ELSE count
           /\ batch_i' = IF leaves THEN batch_i + 1 ELSE batch_i
           /\ trace' = [trace EXCEPT
                  !.calls = Append(@, [batch |-> batch_i, keys |-> keys,
                                       ok |-> ok,
                                       parsed |-> Parsed(kind, keys, structure,
                                                         user_inputs)]),
                  !.returned = IF ok THEN @ \cup DOMAIN UpdateEntries(batch_result)
                               ELSE @,
                  !.succeeded = IF ok THEN @ \cup {batch_i} ELSE @,
                  !.failed = IF leaves /\ ~ok THEN @ \cup {batch_i} ELSE @]
    /\ UNCHANGED <<doc, results, carried, pc, api_key, user_inputs, structure,
                   written, ui, cell, style_calls>>

\* after the last batch: the overrides, and return final_mapping
Integrate ==
    /\ pc = "generate"
    /\ batch_i >= TotalBatches(structure)
    /\ final_mapping' = ApplyOverrides(final_mapping, user_inputs)
    /\ pc' = "fill"
    /\ UNCHANGED <<doc, results, carried, api_key, user_inputs, structure,
                   batch_i, retry_count, written, ui, trace, cell, style_calls>>

\* content = mapping.get(key) or mapping.get(original_text)
ContentFor(mapping, item) ==
    IF Truthy(Get(mapping, item.key_text)) THEN Get(mapping, item.key_text)
    ELSE Get(mapping, item.original_text)

\* the "if content" test dropped: every Binding is written
FillWrites_all(mapping, s) ==
    [n \in 1..Len(s) |->
        [coords |-> s[n].target_coords,
         text |-> Get(mapping, s[n].original_text)]]

\* the writes of the fill loop, in order: <<target_coords, str(content)>>
FillWrites(mapping, s) ==
    LET HasContent(item) == Truthy(ContentFor(mapping, item))
        filled == SelectSeq(s, HasContent)
    IN  [n \in 1..Len(filled) |->
            [coords |-> filled[n].target_coords,
             text |-> ContentFor(mapping, filled[n])]]

\* the cell object behind a cell text of the document: one paragraph per
\* line of the text, each line held by a single run without styling
CellOfText(text) ==
    LET lines == SplitParagraphs(text, <<>>)
    IN  [n \in 1..Len(lines) |-> AddParagraph(lines[n])]

\* set_cell_text_preserving_style(doc.tables[t_idx].cell(r, c), str(content))
SetCellText(d, coords, text) ==
    LET rc == TcOf(d[coords[1] + 1], coords[2], coords[3])
    IN  [d EXCEPT ![coords[1] + 1].rows[rc[1] + 1][rc[2] + 1] =
            TextOfCell(set_cell_text_preserving_style(CellOfText(@), <<text>>))]

RECURSIVE ApplyWritesIn(_, _, _, _)
\* the writes lo..hi applied in order: the first half, and on its result
\* (a document of the same tables) the second half
ApplyWritesIn(d, w, lo, hi) ==
    IF lo > hi THEN d
    ELSE IF lo = hi THEN SetCellText(d, w[lo].coords, w[lo].text)
    ELSE LET mid == (lo + hi) \div 2
             first == ApplyWritesIn(d, w, lo, mid)
         IN  IF Len(first) = Len(d) THEN ApplyWritesIn(first, w, mid + 1, hi)
             ELSE first

\* the document after the fill loop
ApplyWrites(d, w) == ApplyWritesIn(d, w, 1, Len(w))

\* Step 3: if mapping: write every Binding that has content, report success
Fill ==
    /\ pc = "fill"
    /\ IF DOMAIN final_mapping # {}
       THEN LET w == FillWrites(final_mapping, structure)
            IN  /\ written' = w
                /\ doc' = ApplyWrites(doc, written')
                /\ ui' = Append(ui, "success")
                /\ trace' = [trace EXCEPT !.fill_ran = TRUE]
       ELSE UNCHANGED <<written, doc, ui, trace>>
    /\ pc' = "done"
    /\ UNCHANGED <<results, carried, api_key, user_inputs, structure, batch_i,
                   retry_count, final_mapping, cell, style_calls>>

Next ==
    \/ RejectMissingKey
    \/ RejectMissingTopic
    \/ ParseDocument
    \/ \E kind \in ResponseKindsFor(structure) : Attempt(kind)
    \/ Integrate
    \/ Fill

Spec == Init /\ [][Next]_vars

\* the steps of generate_deep_content_chunked
Generate == (\E kind \in ResponseKindsFor(structure) : Attempt(kind)) \/ Integrate

\* generation is one sequential execution in which every backend call
\* returns or raises: a step of it that can be taken is taken
FairSpec == Spec /\ WF_vars(Generate)

(***************************************************************************)
(* Vocabulary of the claims about a returned Structure.                    *)
(***************************************************************************)
Returned == {results[n] : n \in 1..Len(results)}

\* the underlying cell a Binding targets
TargetCell(d, b) ==
    CellId(d[b.target_coords[1] + 1], b.target_coords[1],
           b.target_coords[2], b.target_coords[3])

\* C1: in every Structure returned by get_table_structure no two Bindings
\* have the same target_coords and no two Bindings target the same
\* underlying cell (merged cells included).
C1_UniqueTargets ==
    \A s \in Returned : \A m, n \in 1..Len(s) :
        m # n => /\ s[m].target_coords # s[n].target_coords
                 /\ TargetCell(doc, s[m]) # TargetCell(doc, s[n])

\* a label finds its blank right neighbour already claimed by the label
\* above that neighbour, which is bound exactly once
C1_Witness ==
    /\ Len(results) > 0
    /\ Len(doc) = 1
    /\ ~IsMatrixTable(doc[1])
    /\ \E r \in 1..NRows(doc[1]) - 1 :
          /\ Normalize(CellText(doc[1], r - 1, 1)) = <<"Name">>
          /\ Normalize(CellText(doc[1], r, 0)) = <<"Course", "Name">>
          /\ IsBlank(CellText(doc[1], r, 1))
          /\ \E n \in 1..Len(results[1]) :
                results[1][n].target_coords = <<0, r, 1>>

\* C2: the key_text values of the Bindings of a returned Structure are
\* pairwise distinct.
C2_UniqueKeys ==
    \A s \in Returned : \A m, n \in 1..Len(s) :
        m # n => s[m].key_text # s[n].key_text

GridOf(table) == (0..NRows(table) - 1) \X (0..NCols(table) - 1)

GenericTablesOf(d) == {t \in 1..Len(d) : ~IsMatrixTable(d[t])}
MatrixTablesOf(d) == {t \in 1..Len(d) : IsMatrixTable(d[t])}

\* a non-blank, non-instructional cell
IsLabelAt(table, r, c) ==
    /\ ~IsBlank(CellText(table, r, c))
    /\ ~is_instructional(Normalize(CellText(table, r, c)))

HasBlankAt(table, r, c) ==
    /\ r < NRows(table) /\ c < NCols(table)
    /\ IsBlank(CellText(table, r, c))

\* the keys the claim allows for a label: its text, or that text qualified
\* by one of the section headers
AllowedKeys(label) ==
    {label} \cup {<<h>> \o Sep \o label : h \in SectionHeaders}

BoundOnceTo(s, coords, label) ==
    /\ Cardinality({n \in 1..Len(s) : s[n].target_coords = coords}) = 1
    /\ \A n \in 1..Len(s) :
          s[n].target_coords = coords => s[n].key_text \in AllowedKeys(label)

\* C3: in a generic table every label cell whose right neighbour is blank
\* has exactly one Binding targeting that neighbour, keyed by the label's
\* text or its section-qualified form; a label without a blank right
\* neighbour but with a blank cell below is bound to the cell below.
C3_LabelBoundToBlankNeighbour ==
    \A s \in Returned : \A t \in GenericTablesOf(doc) :
        \A rc \in GridOf(doc[t]) :
            LET r == rc[1]
                c == rc[2]
                label == Strip(CellText(doc[t], r, c))
            IN  IsLabelAt(doc[t], r, c) =>
                  /\ HasBlankAt(doc[t], r, c + 1) =>
                        BoundOnceTo(s, <<t - 1, r, c + 1>>, label)
                  /\ (~HasBlankAt(doc[t], r, c + 1) /\ HasBlankAt(doc[t], r + 1, c)) =>
                        BoundOnceTo(s, <<t - 1, r + 1, c>>, label)

\* grid positions of the cell at <<r, c>> (several when it is merged)
PositionsOf(table, r, c) ==
    {x \in GridOf(table) : TcOf(table, x[1], x[2]) = TcOf(table, r, c)}

\* neither the right nor the below neighbour of any position of the cell is
\* a blank cell
IsEnclosed(table, r, c) ==
    \A x \in PositionsOf(table, r, c) :
        /\ ~HasBlankAt(table, x[1], x[2] + 1)
        /\ ~HasBlankAt(table, x[1] + 1, x[2])

NamesLabel(b, table, r, c) ==
    \/ b.original_text \in {Strip(CellText(table, r, c)),
                            Normalize(CellText(table, r, c))}
    \/ b.key_text \in {Strip(CellText(table, r, c)),
                       Normalize(CellText(table, r, c))}

\* C4 as claimed: a label of a generic table whose right and below
\* neighbours are non-blank or absent is the original_text or key_text of no
\* Binding of the Structure.
C4_NoBindingNamesEnclosedLabel ==
    \A s \in Returned : \A t \in GenericTablesOf(doc) :
        \A rc \in GridOf(doc[t]) :
            (IsLabelAt(doc[t], rc[1], rc[2]) /\ IsEnclosed(doc[t], rc[1], rc[2]))
                => \A n \in 1..Len(s) : ~NamesLabel(s[n], doc[t], rc[1], rc[2])

\* no other cell of the document normalizes to the text of the cell at rc
TextIsUnique(d, t, rc) ==
    \A u \in 1..Len(d) : \A x \in GridOf(d[u]) :
        (u # t \/ TcOf(d[u], x[1], x[2]) # TcOf(d[t], rc[1], rc[2]))
            => Normalize(CellText(d[u], x[1], x[2]))
                  # Normalize(CellText(d[t], rc[1], rc[2]))

\* C4 (amended): a label of a generic table whose right and below
\* neighbours are non-blank or absent yields no Binding; when no other cell
\* of the document normalizes to the same text, no Binding of the Structure
\* has that label as its original_text or key_text.
C4_EnclosedLabelUnbound ==
    \A s \in Returned : \A t \in GenericTablesOf(doc) :
        \A rc \in GridOf(doc[t]) :
            (/\ IsLabelAt(doc[t], rc[1], rc[2])
             /\ IsEnclosed(doc[t], rc[1], rc[2])
             /\ TextIsUnique(doc, t, rc))
                => \A n \in 1..Len(s) : ~NamesLabel(s[n], doc[t], rc[1], rc[2])

\* test_parsing.py CASE 3: "Existing Key" | "Existing Value", parsed
C4_Witness ==
    /\ Len(results) > 0
    /\ \E t \in GenericTablesOf(doc) : \E rc \in GridOf(doc[t]) :
          /\ Strip(CellText(doc[t], rc[1], rc[2])) = <<"Existing", " ", "Key">>
          /\ IsEnclosed(doc[t], rc[1], rc[2])
          /\ TextIsUnique(doc, t, rc)
          /\ ~IsBlank(CellText(doc[t], rc[1], rc[2] + 1))
    /\ Len(results[1]) > 0

\* phase of row r: token of the nearest phase-marker row above it
PhaseAbove(table, r) ==
    LET markers == {q \in 0..r - 1 : IsPhaseRow(table, q)}
    IN  IF markers = {} THEN DefaultPhase
        ELSE RowRawText(table, SetMax(markers))

HeaderOf(table, c) ==
    LET m == ColMap(table)
    IN  m[CHOOSE n \in 1..Len(m) : m[n][1] = c][2]

\* C5: every Binding of a matrix table for row r is keyed
\* "{phase} > {header}_row{r}", phase being the token of the nearest
\* phase-marker row above r or the default, so a repeated marker leaves the
\* phase of the rows after it unchanged; no Binding lies on a marker row.
C5_MatrixKeyPhase ==
    \A s \in Returned : \A n \in 1..Len(s) :
        LET t == s[n].target_coords[1] + 1
            r == s[n].target_coords[2]
            c == s[n].target_coords[3]
        IN  t \in MatrixTablesOf(doc) =>
              /\ ~IsPhaseRow(doc[t], r)
              /\ \E k \in 1..Len(ColMap(doc[t])) : ColMap(doc[t])[k][1] = c
              /\ s[n].original_text = HeaderOf(doc[t], c)
              /\ s[n].key_text =
                    PhaseAbove(doc[t], r) \o <<" ", ">", " ">>
                        \o HeaderOf(doc[t], c) \o <<"_", "row", ToString(r)>>

\* header, marker, data row, the same marker again, data row: the last row
\* is bound under the repeated phase
C5_Witness ==
    /\ Len(results) > 0
    /\ Len(doc) = 1 /\ IsMatrixTable(doc[1]) /\ NRows(doc[1]) = 5
    /\ IsPhaseRow(doc[1], 1) /\ ~IsPhaseRow(doc[1], 2) /\ IsPhaseRow(doc[1], 3)
    /\ RowRawText(doc[1], 1) = RowRawText(doc[1], 3)
    /\ \E n \in 1..Len(results[1]) :
          /\ results[1][n].target_coords[2] = 4
          /\ results[1][n].key_text[1] = "in_class"
    /\ \E n \in 1..Len(results[1]) : results[1][n].target_coords[2] = 2

\* every cell of row r holds the same phase-marker token
IsFullMarkerRow(table, r) ==
    \E tok \in PhaseTokens :
        \A c \in 0..NCols(table) - 1 : Strip(CellText(table, r, c)) = <<tok>>

MappedColumns(table) == {ColMap(table)[n][1] : n \in 1..Len(ColMap(table))}

\* C12: in a matrix table only a row made entirely of one repeated
\* phase-marker token is skipped; in every other row (a row with a phase
\* token in one cell and blank cells elsewhere included) every blank cell
\* under a column of the header map is the target of a Binding, and no
\* Binding lies on a row made entirely of one token.
C12_OnlyFullMarkerRowsSkipped ==
    \A s \in Returned : \A t \in MatrixTablesOf(doc) :
        \A r \in 0..NRows(doc[t]) - 1 :
            /\ IsFullMarkerRow(doc[t], r) =>
                  \A n \in 1..Len(s) :
                      s[n].target_coords[1] = t - 1 => s[n].target_coords[2] # r
            /\ ~IsFullMarkerRow(doc[t], r) =>
                  \A c \in MappedColumns(doc[t]) :
                      IsBlank(CellText(doc[t], r, c)) =>
                          \E n \in 1..Len(s) :
                              TargetCell(doc, s[n]) = CellId(doc[t], t - 1, r, c)

\* position of <<r, c>> in the row-major scan of a table
ScanIndex(table, r, c) == r * NCols(table) + c

\* the generic Bindings of table t whose label text is that of the cell at rc
BindingsOfLabel(s, d, t, rc) ==
    {n \in 1..Len(s) :
        /\ s[n].target_coords[1] = t - 1
        /\ s[n].original_text = Normalize(CellText(d[t], rc[1], rc[2]))}

\* the cell at <<r, c>> is the target of a Binding whose label is scanned
\* before position k of the table
ClaimedBefore(s, d, t, r, c, k) ==
    \E n \in 1..Len(s) : \E x \in GridOf(d[t]) :
        /\ s[n].target_coords = <<t - 1, r, c>>
        /\ Normalize(CellText(d[t], x[1], x[2])) = s[n].original_text
        /\ ScanIndex(d[t], x[1], x[2]) < k

IsFree(s, d, t, r, c, k) ==
    HasBlankAt(d[t], r, c) /\ ~ClaimedBefore(s, d, t, r, c, k)

\* C13: in a generic table a label is bound to its right cell when that
\* cell is blank and unclaimed; otherwise (right cell absent, non-blank, or
\* claimed by an earlier Binding) to the cell below when that one is blank
\* and unclaimed; a label never has more than one Binding.  Stated for
\* labels whose text occurs once in the document; the choice of the target
\* is stated for tables without merged cells.
C13_RightElseBelow ==
    \A s \in Returned : \A t \in GenericTablesOf(doc) :
        \A rc \in GridOf(doc[t]) :
            LET r == rc[1]
                c == rc[2]
                k == ScanIndex(doc[t], r, c)
                bound == BindingsOfLabel(s, doc, t, rc)
            IN  (IsLabelAt(doc[t], r, c) /\ TextIsUnique(doc, t, rc)) =>
                  /\ Cardinality(bound) <= 1
                  /\ (doc[t].hmerge = {} /\ doc[t].vmerge = {}) =>
                        IF IsFree(s, doc, t, r, c + 1, k)
                        THEN \E n \in bound : s[n].target_coords = <<t - 1, r, c + 1>>
                        ELSE IF IsFree(s, doc, t, r + 1, c, k)
                        THEN \E n \in bound : s[n].target_coords = <<t - 1, r + 1, c>>
                        ELSE bound = {}

\* the label cells of the generic tables, as <<table, row, column>> with the
\* table counted from 1
GenericLabelCells(d) ==
    {x \in UNION {{<<t, rc[1], rc[2]>> : rc \in GridOf(d[t])} :
                      t \in GenericTablesOf(d)} :
        IsLabelAt(d[x[1]], x[2], x[3])}

ScannedBefore(d, x, y) ==
    x[1] < y[1] \/ (x[1] = y[1] /\ ScanIndex(d[x[1]], x[2], x[3])
                                      < ScanIndex(d[y[1]], y[2], y[3]))

LabelText(d, x) == Normalize(CellText(d[x[1]], x[2], x[3]))

IsShort(text) == TextLen(text) < ShortLabelLen

\* the generic Bindings of a Structure whose label text is text
GenericBindingsOf(s, text) ==
    {n \in 1..Len(s) : ~s[n].is_teaching_process /\ s[n].original_text = text}

\* the Binding's target is the right or the below neighbour of the cell x
IsBindingOfCell(b, x) ==
    b.target_coords \in {<<x[1] - 1, x[2], x[3] + 1>>, <<x[1] - 1, x[2] + 1, x[3]>>}

\* C19 as claimed: when several label cells of the generic tables normalize
\* to the same text of fewer than 10 characters, only the first of them in
\* scan order is bound: every generic Binding with that text is the Binding
\* of the first occurrence, and there is at most one.
C19_OnlyFirstOccurrenceBound ==
    \A s \in Returned : \A x \in GenericLabelCells(doc) :
        (/\ IsShort(LabelText(doc, x))
         /\ \E y \in GenericLabelCells(doc) :
               y # x /\ LabelText(doc, y) = LabelText(doc, x)
         /\ \A y \in GenericLabelCells(doc) :
               LabelText(doc, y) = LabelText(doc, x) =>
                   (y = x \/ ScannedBefore(doc, x, y)))
            => /\ Cardinality(GenericBindingsOf(s, LabelText(doc, x))) <= 1
               /\ \A n \in GenericBindingsOf(s, LabelText(doc, x)) :
                     IsBindingOfCell(s[n], x)

\* C19 (amended): the Structure holds at most one generic Binding per label
\* text of fewer than 10 characters: once a label with that text is bound,
\* every later occurrence yields no Binding; the text is bound whenever one
\* of its occurrences has a blank right neighbour that no Binding of another
\* text targets.
C19_OneBindingPerShortText ==
    \A s \in Returned : \A x \in GenericLabelCells(doc) :
        IsShort(LabelText(doc, x)) =>
            /\ Cardinality(GenericBindingsOf(s, LabelText(doc, x))) <= 1
            /\ (/\ HasBlankAt(doc[x[1]], x[2], x[3] + 1)
                /\ \A n \in 1..Len(s) :
                      TargetCell(doc, s[n])
                            = CellId(doc[x[1]], x[1] - 1, x[2], x[3] + 1)
                          => s[n].original_text = LabelText(doc, x))
                  => GenericBindingsOf(s, LabelText(doc, x)) # {}

\* two tables "Name" | blank: the first label is bound, the second dropped
C19_Witness ==
    /\ Len(results) > 0
    /\ Len(doc) = 2
    /\ doc[1] = Table(<<<<<<"Name">>, Blank>>>>)
    /\ doc[2] = doc[1]
    /\ Len(results[1]) = 1
    /\ results[1][1].target_coords = <<0, 0, 1>>
    /\ results[1][1].original_text = <<"Name">>

\* the locals of the call that left `carried`, as they would be at the
\* start of a call that did not create its two sets anew
StaleLocals == [carried EXCEPT !.structure = <<>>]

\* C10: all calls of get_table_structure on the same document return the
\* same ordered Structure; when the scan of a call starts no cell and no
\* label text is claimed and the Structure is empty, whatever the call
\* before left behind; and inference leaves the document as it was.
C10_InferenceIdempotent ==
    /\ [](\A m, n \in 1..Len(results) : results[m] = results[n])
    /\ [](pc = "scan" =>
            /\ carried.structure = <<>>
            /\ carried.processed_cell_ids = {}
            /\ carried.processed_keys = {})
    /\ [][doc' = doc]_vars

\* a second call has returned on a document whose calls claim cells and
\* labels, and where a scan started from the claims the call left behind
\* would return a different Structure
C10_Witness ==
    /\ pc = "test"
    /\ Len(results) = 2
    /\ Len(results[2]) >= 2
    /\ carried.processed_keys # {}
    /\ carried.processed_cell_ids # {}
    /\ RunInference(doc, StaleLocals).structure # results[2]

(***************************************************************************)
(* Vocabulary of the claims about a run.                                   *)
(***************************************************************************)
\* generate_deep_content_chunked has returned
AfterGeneration == pc \in {"fill", "done"}

Shown(msg) == \E n \in 1..Len(ui) : ui[n] = msg

QualifiedTimeKey == <<"lesson_no", " ", ">", " ", "class_time">>

\* C6 as claimed: after generation the ContentMap's value under every key
\* of the override map is the corresponding UserContext field.
C6_OverrideEqualsUserValue ==
    AfterGeneration =>
        \A n \in 1..Len(ManualOverrides(user_inputs)) :
            LET k == ManualOverrides(user_inputs)[n][1]
                v == ManualOverrides(user_inputs)[n][2]
            IN  k \in DOMAIN final_mapping => final_mapping[k] = v

\* C6 (amended): after generation, for every key of the override map whose
\* UserContext field is non-empty, the ContentMap holds that key and its
\* value is the UserContext field, whatever the backend returned.
C6_NonEmptyOverrideWins ==
    AfterGeneration =>
        \A n \in 1..Len(ManualOverrides(user_inputs)) :
            LET k == ManualOverrides(user_inputs)[n][1]
                v == ManualOverrides(user_inputs)[n][2]
            IN  Truthy(v) => (k \in DOMAIN final_mapping /\ final_mapping[k] = v)

\* the backend returned forged identity values and the user's values stand
C6_Witness ==
    /\ AfterGeneration
    /\ QualifiedTimeKey \in trace.returned
    /\ <<"teacher_name">> \in trace.returned
    /\ user_inputs["teacher_name"] = "ZhangSan"
    /\ final_mapping[<<"teacher_name">>] = "ZhangSan"
    /\ final_mapping[QualifiedTimeKey] = "2024-03-20"

\* C7: when a batch has failed on all its attempts, every batch has still
\* been attempted and the ContentMap holds every key returned by the
\* batches that succeeded; with a batch that succeeded, the run goes on to
\* the write stage and reports success.
C7_FailedBatchDoesNotBlock ==
    (AfterGeneration /\ trace.failed # {}) =>
        /\ \A i \in 0..TotalBatches(structure) - 1 :
              \E n \in 1..Len(trace.calls) : trace.calls[n].batch = i
        /\ trace.returned \subseteq DOMAIN final_mapping
        /\ (pc = "done" /\ trace.succeeded # {}) =>
              (trace.fill_ran /\ ui = <<"success">>)

\* batch 2 of 3 failed twice, batches 1 and 3 succeeded, the run finished
C7_Witness ==
    /\ pc = "done"
    /\ TotalBatches(structure) = 3
    /\ trace.failed = {1}
    /\ trace.succeeded = {0, 2}
    /\ \A n \in 1..Len(structure) :
          (n <= BATCH_SIZE \/ n > 2 * BATCH_SIZE)
              => structure[n].key_text \in DOMAIN final_mapping
    /\ ui = <<"success">>
    /\ written # <<>>
    /\ Len(written) < Len(structure)

\* C8: when every batch failed on all its attempts the run is reported as
\* a generation failure, the write stage does not run, no cell is written
\* and no success is reported.
C8_AllFailedReported ==
    (pc = "done" /\ trace.succeeded = {} /\ trace.failed # {}) =>
        /\ Shown("generation_failure")
        /\ ~trace.fill_ran
        /\ written = <<>>
        /\ ~Shown("success")

\* C9: a backend call is made only with credential and topic present and
\* after an inference that returned a non-empty Structure; with the
\* credential or the topic missing inference is not started, and in all
\* three cases no backend call is made and no cell is written.
C9_NoCallWithoutInputs ==
    /\ trace.calls # <<>> =>
          /\ api_key # "" /\ user_inputs["outline"] # ""
          /\ trace.inferences >= 1 /\ structure # <<>>
    /\ (api_key = "" \/ user_inputs["outline"] = "") =>
          /\ trace.inferences = 0 /\ results = <<>>
          /\ trace.calls = <<>> /\ written = <<>> /\ ~trace.fill_ran
    /\ (pc # "idle" /\ structure = <<>>) =>
          /\ trace.calls = <<>> /\ written = <<>> /\ ~trace.fill_ran
          /\ pc = "stopped"

\* inference ran with credential and topic present and found no Binding
C9_Witness ==
    /\ pc = "stopped"
    /\ api_key # "" /\ user_inputs["outline"] # ""
    /\ trace.inferences = 1
    /\ results = <<<<>>>>
    /\ ui = <<"warning_structure">>
    /\ trace.calls = <<>>

(***************************************************************************)
(* Vocabulary of the claims about set_cell_text_preserving_style.          *)
(***************************************************************************)
\* the last call made on the cell
LastStyleCall == style_calls[Len(style_calls)]

\* bold, italic and font name of the run are those of style_run
SameStyle(run, style_run) ==
    /\ run.bold = style_run.bold
    /\ run.italic = style_run.italic
    /\ run.name = style_run.name

\* C11 as claimed: after set_cell_text_preserving_style(cell, text) on a
\* cell with a paragraph, the first paragraph has exactly one run, its text
\* is the new text, and its bold, italic, font name and (when set) font
\* size are those of the first run the paragraph had before the call, or
\* the defaults when it had no run; on a cell without a paragraph the cell
\* has one paragraph whose text is the new text.
C11_StylePreserved ==
    style_calls # <<>> =>
        LET before == LastStyleCall.before
            text == LastStyleCall.text
        IN  /\ cell # <<>>
            /\ before = <<>> =>
                  /\ Len(cell) = 1
                  /\ ParagraphText(cell[1]) = text
                  /\ \A n \in 1..Len(cell[1]) : cell[1][n] = NewRun(text)
            /\ before # <<>> =>
                  /\ Len(cell[1]) = 1
                  /\ cell[1][1].text = text
                  /\ before[1] # <<>> =>
                        /\ SameStyle(cell[1][1], before[1][1])
                        /\ before[1][1].size # <<>> =>
                              cell[1][1].size = before[1][1].size
                  /\ before[1] = <<>> => cell[1][1] = NewRun(text)

\* C11 (amended): as above, except for the font size: the new run has the
\* font size of the former first run when that size is set and is not 0,
\* and no font size of its own when it is not set or is 0.
C11_StylePreservedNonZeroSize ==
    style_calls # <<>> =>
        LET before == LastStyleCall.before
            text == LastStyleCall.text
        IN  /\ cell # <<>>
            /\ before = <<>> =>
                  /\ Len(cell) = 1
                  /\ ParagraphText(cell[1]) = text
                  /\ \A n \in 1..Len(cell[1]) : cell[1][n] = NewRun(text)
            /\ before # <<>> =>
                  /\ Len(cell[1]) = 1
                  /\ cell[1][1].text = text
                  /\ before[1] # <<>> =>
                        /\ SameStyle(cell[1][1], before[1][1])
                        /\ before[1][1].size \notin {<<>>, <<0>>} =>
                              cell[1][1].size = before[1][1].size
                        /\ before[1][1].size \in {<<>>, <<0>>} =>
                              cell[1][1].size = <<>>
                  /\ before[1] = <<>> => cell[1][1] = NewRun(text)

\* the first paragraph had a bold first run of size 12 followed by another
\* run; the new text is its only run now, bold and of size 12
C11_Witness ==
    /\ Len(style_calls) = 1
    /\ LastStyleCall.text = <<"generated">>
    /\ Len(LastStyleCall.before) = 2
    /\ Len(LastStyleCall.before[1]) = 2
    /\ LastStyleCall.before[1][1].bold = "True"
    /\ LastStyleCall.before[1][1].size = <<12>>
    /\ LastStyleCall.before[1][1].name = "SimSun"
    /\ cell[1] = <<[text |-> <<"generated">>, bold |-> "True",
                    italic |-> LastStyleCall.before[1][1].italic,
                    name |-> "SimSun", size |-> <<12>>]>>
    /\ cell[2] = LastStyleCall.before[2]

(***************************************************************************)
(* Vocabulary of the claims about the run, end to end.                     *)
(***************************************************************************)
\* the identity labels and the UserContext field that holds their value
IdentityLabels ==
    {"lesson_no", "class_time", "class_place", "class_group", "teacher_name"}

IdentityField(label) ==
    CASE label = "lesson_no" -> "lesson_no"
      [] label = "class_time" -> "time"
      [] label = "class_place" -> "place"
      [] label = "class_group" -> "group"
      [] OTHER -> "teacher_name"

\* the texts the fill stage wrote at target_coords
WrittenAt(coords) ==
    {written[m].text : m \in {x \in 1..Len(written) : written[x].coords = coords}}

\* C14: when the run has finished, for every Binding whose label is an
\* identity field with a value supplied in UserContext, the text written
\* into its target cell is that value, whatever key inference gave the
\* Binding and whatever the backend returned.
C14_IdentityWrittenAsSupplied ==
    pc = "done" =>
        \A n \in 1..Len(structure) :
            \A label \in IdentityLabels :
                (/\ structure[n].original_text = <<label>>
                 /\ Truthy(user_inputs[IdentityField(label)]))
                    => WrittenAt(structure[n].target_coords)
                          = {user_inputs[IdentityField(label)]}

\* the calls made for batch i, as positions of trace.calls
CallsOf(i) == {n \in 1..Len(trace.calls) : trace.calls[n].batch = i}

\* the loop of batch i has been left
BatchDone(i) == pc # "generate" \/ batch_i > i

\* C15 as claimed, second part: once an attempt of a batch has parsed (the
\* extraction returned a value), no further call is made for that batch.
C15_NoCallAfterParse ==
    \A m, n \in 1..Len(trace.calls) :
        (m < n /\ trace.calls[m].parsed)
            => trace.calls[n].batch # trace.calls[m].batch

\* what holds of the calls at every moment of a run
RetriesBounded ==
    /\ Len(trace.calls) <= MAX_ATTEMPTS * TotalBatches(structure)
    /\ \A i \in 0..TotalBatches(structure) - 1 :
          /\ Cardinality(CallsOf(i)) <= MAX_ATTEMPTS
          /\ \A m, n \in CallsOf(i) :
                /\ m < n => ~trace.calls[m].ok
                /\ trace.calls[m].keys = trace.calls[n].keys
          /\ BatchDone(i) =>
                \/ \E n \in CallsOf(i) : trace.calls[n].ok
                \/ /\ Cardinality(CallsOf(i)) = MAX_ATTEMPTS
                   /\ i \in trace.failed
          /\ i \in trace.failed =>
                /\ BatchDone(i)
                /\ \A n \in CallsOf(i) : ~trace.calls[n].ok
    /\ \A n \in 1..Len(trace.calls) - 1 :
          trace.calls[n + 1].batch \in
              {trace.calls[n].batch, trace.calls[n].batch + 1}

\* C15 (amended): a batch whose attempt failed is called again with the
\* same keys until it has had MAX_ATTEMPTS calls in all; no further call
\* is made for a batch once an attempt has succeeded (it returned a truthy
\* JSON value and the update of the ContentMap with it did not raise); a
\* batch whose attempts all failed is recorded as failed and the next batch
\* is taken up; at most MAX_ATTEMPTS calls per batch are made, and
\* generation always reaches the override step.
C15_BoundedRetries ==
    /\ []RetriesBounded
    /\ (pc = "generate") ~> (pc = "fill")

\* three batches: the first failed on both attempts, the second succeeded
\* on its retry, the third at once, and the overrides have been applied
C15_Witness ==
    /\ pc = "fill"
    /\ TotalBatches(structure) = 3
    /\ Len(trace.calls) = 5
    /\ [n \in 1..5 |-> trace.calls[n].batch] = <<0, 0, 1, 1, 2>>
    /\ [n \in 1..5 |-> trace.calls[n].ok] = <<FALSE, FALSE, FALSE, TRUE, TRUE>>
    /\ trace.failed = {0}

\* the batches that were submitted, and the keys submitted with batch i
SubmittedBatches == {trace.calls[n].batch : n \in 1..Len(trace.calls)}

SubmittedKeys(i) == trace.calls[CHOOSE n \in CallsOf(i) : TRUE].keys

KeySet(keys) == {keys[n] : n \in 1..Len(keys)}

\* the smallest number of batches of at most BATCH_SIZE keys that hold n keys
CeilBatches(n) == CHOOSE b \in 0..n : b * BATCH_SIZE >= n /\ (b = 0 \/ (b - 1) * BATCH_SIZE < n)

\* C16: when generation has returned, the keys were submitted in
\* ceil(n / 45) batches of at most 45 keys each, batch i holding the keys at
\* positions 45 i + 1 .. 45 i + 45 of the Structure, the batches called in
\* that order; every Binding's key was submitted in exactly one batch and
\* no key in two different batches.
C16_BatchesPartitionKeys ==
    AfterGeneration =>
        /\ SubmittedBatches = 0..CeilBatches(Len(structure)) - 1
        /\ \A i \in SubmittedBatches :
              /\ Len(SubmittedKeys(i)) <= BATCH_SIZE
              /\ \A k \in 1..Len(SubmittedKeys(i)) :
                    SubmittedKeys(i)[k] = structure[i * BATCH_SIZE + k].key_text
        /\ \A n \in 1..Len(trace.calls) - 1 :
              trace.calls[n].batch <= trace.calls[n + 1].batch
        /\ \A n \in 1..Len(structure) :
              Cardinality({i \in SubmittedBatches :
                  structure[n].key_text \in KeySet(SubmittedKeys(i))}) = 1

\* C17: when the fill stage has run, the content used for a Binding is the
\* ContentMap entry under its key_text whenever the ContentMap has such an
\* entry (so nothing else is written when that entry is empty); the entry
\* under original_text is used only when there is no entry for key_text.
C17_KeyEntryHasPriority ==
    (pc = "done" /\ trace.fill_ran) =>
        \A n \in 1..Len(structure) :
            LET key == structure[n].key_text
                label == structure[n].original_text
                used == WrittenAt(structure[n].target_coords)
            IN  IF key \in DOMAIN final_mapping
                THEN used = IF Truthy(final_mapping[key])
                            THEN {final_mapping[key]} ELSE {}
                ELSE used = IF Truthy(Get(final_mapping, label))
                            THEN {final_mapping[label]} ELSE {}

\* the underlying cell a write reaches, in the document that was parsed
WriteCell(m) ==
    CellId(trace.parsed_doc[written[m].coords[1] + 1], written[m].coords[1],
           written[m].coords[2], written[m].coords[3])

ContentFound(b) == Truthy(ContentFor(final_mapping, b))

\* the underlying cells of the targets of the Bindings with content
FilledCells ==
    {TargetCell(trace.parsed_doc, structure[n]) :
        n \in {x \in 1..Len(structure) : ContentFound(structure[x])}}

\* C18: once the document has been parsed, a cell's text differs from its
\* text at inference only if the cell is the target of a Binding for which
\* content was found; no cell is written more than once; the target of a
\* Binding without content is still blank; every cell that was non-blank
\* at inference (every label cell among them) has the text it had.
C18_OnlyFilledTargetsChange ==
    trace.inferences >= 1 =>
        LET d0 == trace.parsed_doc
            filled == FilledCells
        IN
        /\ \A t \in 1..Len(d0) : \A rc \in GridOf(d0[t]) :
              /\ CellText(doc[t], rc[1], rc[2]) # CellText(d0[t], rc[1], rc[2])
                    => CellId(d0[t], t - 1, rc[1], rc[2]) \in filled
              /\ ~IsBlank(CellText(d0[t], rc[1], rc[2]))
                    => CellText(doc[t], rc[1], rc[2])
                          = CellText(d0[t], rc[1], rc[2])
        /\ Cardinality({WriteCell(m) : m \in 1..Len(written)}) = Len(written)
        /\ \A n \in 1..Len(structure) :
              ~ContentFound(structure[n]) =>
                  LET b == structure[n].target_coords
                  IN  /\ IsBlank(CellText(doc[b[1] + 1], b[2], b[3]))
                      /\ CellText(doc[b[1] + 1], b[2], b[3])
                            = CellText(d0[b[1] + 1], b[2], b[3])

\* the table with the merged cell after the fill: the Binding of the merged
\* cell was written, the other one had no content and its target is blank
C18_Witness ==
    /\ pc = "done" /\ trace.fill_ran
    /\ trace.parsed_doc = <<MergedProcessTable>>
    /\ Len(structure) = 2
    /\ Len(written) = 1
    /\ ContentFound(structure[1]) /\ ~ContentFound(structure[2])
    /\ CellText(doc[1], 2, 0) = <<"generated">>
    /\ CellText(doc[1], 0, 0) = <<"teaching_content">>
    /\ IsBlank(CellText(doc[1], 2, 1))

====
